---------------------------- MODULE Spec2Model ----------------------------
(***************************************************************************)
(* A model of chaospy's orthogonal-polynomial, distribution and quadrature *)
(* code.  Real numbers are modelled exactly as normalised rationals        *)
(* <<numerator, denominator>>; polynomials in one variable q0 are          *)
(* sequences of rational coefficients, lowest degree first.                *)
(***************************************************************************)
EXTENDS Integers, Sequences, FiniteSets, TLC

VARIABLES lag, gs, dst, quad, desc

vars == <<lag, gs, dst, quad, desc>>

\* the program is single-threaded: a function is called when no other is running
Quiet == lag.pc = "idle" /\ gs.pc = "idle" /\ dst.pc = "idle" /\ quad.pc = "idle"
         /\ desc.pc = "idle"

(***************************************************************************)
(* Bounds of the model.                                                    *)
(***************************************************************************)
\* largest number of abscissas handed to lagrange_polynomial
MaxSize == 4
\* abscissas are drawn from -1..MaxAbscissa
MaxAbscissa == 2
\* largest order handed to orth_gs
MaxOrder == 2
\* largest size of the Binomial distributions handed to orth_gs
MaxBinomialSize == 3
\* largest size of the Binomial distributions that are evaluated
MaxTrials == 5
\* largest order handed to quad_gaussian
MaxQuadOrder == 2
\* the accuracy handed to quad_gaussian: the order of the proxy quadrature
Accuracy == 4

(***************************************************************************)
(* Exact rational arithmetic (the floats of numpy, without rounding).      *)
(***************************************************************************)
Abs(n) == IF n < 0 THEN -n ELSE n

RECURSIVE Gcd(_, _)
Gcd(a, b) == IF b = 0 THEN a ELSE Gcd(b, a % b)

Sign(n) == IF n < 0 THEN -1 ELSE IF n = 0 THEN 0 ELSE 1

\* n/d in lowest terms with a positive denominator; a division by zero gives,
\* as in numpy, inf, -inf or nan: <<1, 0>>, <<-1, 0>>, <<0, 0>>
Rat(n, d) ==
    IF d = 0 THEN <<Sign(n), 0>>
    ELSE LET g == Gcd(Abs(n), Abs(d))
             s == IF d < 0 THEN -1 ELSE 1
         IN  <<(s * n) \div g, (s * d) \div g>>

\* TLC evaluates a function expression anew at every application; comparing it
\* replaces it by its table of values
Force(f) == IF f = f THEN f ELSE f

RInt(n) == <<n, 1>>
RZero == <<0, 1>>
ROne == <<1, 1>>
RAdd(x, y) == Rat(x[1] * y[2] + y[1] * x[2], x[2] * y[2])
RNeg(x) == <<-x[1], x[2]>>
RSub(x, y) == RAdd(x, RNeg(y))
RMul(x, y) == Rat(x[1] * y[1], x[2] * y[2])
RDiv(x, y) == Rat(x[1] * y[2], x[2] * y[1])
RLe(x, y) == x[1] * y[2] <= y[1] * x[2]
RLt(x, y) == x[1] * y[2] < y[1] * x[2]

RECURSIVE Pow(_, _)
Pow(x, e) == IF e = 0 THEN 1 ELSE x * Pow(x, e - 1)

RECURSIVE RPow(_, _)
RPow(x, e) == IF e = 0 THEN ROne ELSE RMul(x, RPow(x, e - 1))

RECURSIVE SumTo(_, _)
\* f[1] + ... + f[n] for integers
SumTo(f, n) == IF n = 0 THEN 0 ELSE SumTo(f, n - 1) + f[n]

RECURSIVE RSumTo(_, _)
\* f[1] + ... + f[n] for rationals
RSumTo(f, n) == IF n = 0 THEN RZero ELSE RAdd(RSumTo(f, n - 1), f[n])

(***************************************************************************)
(* Polynomials in q0: evaluation at a rational point.                      *)
(***************************************************************************)
PolyCall(p, x) == RSumTo([k \in 1..Len(p) |-> RMul(p[k], RPow(x, k - 1))], Len(p))

(***************************************************************************)
(* orthogonal/lagrange.py                                                  *)
(***************************************************************************)
\* numpy.roll(matrix, -1, axis=0): every row moves up, the first goes last
RollRows(m) == Force([r \in 1..Len(m) |-> m[(r % Len(m)) + 1]])

\* numpy.roll(matrix, -1, axis=1): every column moves left, the first goes last
RollCols(m) == Force([r \in 1..Len(m) |-> [c \in 1..Len(m) |-> m[r][(c % Len(m)) + 1]]])

\* matrix[1:, 1:]
Sub11(m) == Force([r \in 1..(Len(m) - 1) |-> [c \in 1..(Len(m) - 1) |-> m[r + 1][c + 1]]])

\* the matrix without its first row and without column c
DropCol(m, c) ==
    Force([r \in 1..(Len(m) - 1) |->
        [k \in 1..(Len(m) - 1) |-> IF k < c THEN m[r + 1][k] ELSE m[r + 1][k + 1]]])

RECURSIVE Det(_)
\* numpy.linalg.det, by expansion along the first row
Det(m) ==
    IF Len(m) = 0 THEN 1
    ELSE IF Len(m) = 1 THEN m[1][1]
    ELSE SumTo([c \in 1..Len(m) |->
                   (IF c % 2 = 1 THEN 1 ELSE -1) * m[1][c] * Det(DropCol(m, c))],
               Len(m))

\* numpy.linalg.inv of a 2x2 matrix
Inv2(m) ==
    LET d == Det(m)
    IN  <<<<Rat(m[2][2], d), Rat(-m[1][2], d)>>,
          <<Rat(-m[2][1], d), Rat(m[1][1], d)>>>>

\* indices = bindex(0, order-1, dim, sort)[:size] for dim = 2 and size = 3: the
\* exponents of (q0, q1) in 1, q1, q0
Bindex2 == <<<<0, 0>>, <<0, 1>>, <<1, 0>>>>

\* matrix = numpy.prod(abscissas.T[idx]**indices[idy], -1).  In one dimension
\* row a is abscissa a and column b is the exponent b-1; in two dimensions
\* row a is the point a = abscissas.T[a] and column b is its monomial b
LagrangeMatrix(abscissas, dim) ==
    IF dim = 1
    THEN Force([a \in 1..Len(abscissas) |->
             [b \in 1..Len(abscissas) |-> Pow(abscissas[a], b - 1)]])
    ELSE Force([a \in 1..Len(abscissas) |->
             [b \in 1..Len(abscissas) |->
                 Pow(abscissas[a][1], Bindex2[b][1]) * Pow(abscissas[a][2], Bindex2[b][2])]])

\* n is a power of two
RECURSIVE IsPowerOfTwo(_)
IsPowerOfTwo(n) == n = 1 \/ (n > 1 /\ n % 2 = 0 /\ IsPowerOfTwo(n \div 2))

\* the quotient a / b is a float without rounding
ExactQuotient(a, b) == a = 0 \/ IsPowerOfTwo(Abs(b) \div Gcd(Abs(a), Abs(b)))

\* two rows of the matrix are equal
EqualRows(m) == \E a, b \in 1..Len(m) : a # b /\ m[a] = m[b]

\* the LU factorization with partial pivoting of a matrix of small integers
\* is free of rounding: two equal rows cancel exactly (a singular matrix of
\* one dimension has two); otherwise, for three rows (1, u, v), the first step
\* subtracts the first row from the others, and the second takes the row with
\* the larger entry left in the second column as pivot (p, p2), divides the
\* entry s of the other row (s, s2) by p and subtracts the quotient times p2
\* from s2
ExactElimination(m) ==
    \/ EqualRows(m)
    \/ Len(m) # 3
    \/ LET a == <<m[2][2] - m[1][2], m[2][3] - m[1][3]>>
           b == <<m[3][2] - m[1][2], m[3][3] - m[1][3]>>
           pivot == IF Abs(a[1]) >= Abs(b[1]) THEN a ELSE b
           other == IF Abs(a[1]) >= Abs(b[1]) THEN b ELSE a
       IN  pivot[1] = 0 \/ pivot[2] = 0 \/ ExactQuotient(other[1], pivot[1])

\* what rounding leaves of a determinant that is zero; in float64 it is of
\* the order of 2**-52 times the entries, and what matters is that it is not 0
Residue == Rat(1, Pow(2, 16))

\* det = numpy.linalg.det(matrix), the product of the diagonal of the LU
\* factorization in float64: the values it can return.  A determinant that is
\* not zero is returned as it is; one that is zero is returned as 0 when the
\* factorization is free of rounding, and as 0 or as a residue of the
\* rounding when it is not (the multiply-add of the build decides)
LinalgDet(matrix) ==
    IF Det(matrix) # 0 THEN {RInt(Det(matrix))}
    ELSE IF ExactElimination(matrix) THEN {RZero}
    ELSE {RZero, Residue, RNeg(Residue)}

\* numpoly.sum(coeffs.T*vec, 1): polynomial j has coefficient coeffs[i][j] at q0**i
SumCoeffsVec(coeffs) ==
    [j \in 1..Len(coeffs) |-> [i \in 1..Len(coeffs) |-> coeffs[i][j]]]

\* coeffs /= det
DivCoeffs(coeffs, det) ==
    [i \in 1..Len(coeffs) |-> [j \in 1..Len(coeffs) |-> RDiv(coeffs[i][j], det)]]

\* coeffs = numpy.zeros((size, size))
Zeros(size) == [i \in 1..size |-> [j \in 1..size |-> RZero]]

\* abscissas holds abscissas.T: one entry per sample point, a number for
\* dim = 1 and a pair for dim = 2
LagIdle ==
    [pc |-> "idle", abscissas |-> <<>>, dim |-> 0, matrix |-> <<>>, det |-> RZero,
     i |-> 0, j |-> 0, coeffs |-> <<>>, out |-> <<>>]

\* sequences of pairwise distinct abscissas
Distinct(s) == \A a, b \in 1..Len(s) : a # b => s[a] # s[b]

AbscissaSeqs ==
    UNION {[1..n -> (-1)..MaxAbscissa] : n \in 1..MaxSize}

\* three sample points in two dimensions
AbscissaPoints ==
    LET Points == ((-1)..MaxAbscissa) \X ((-1)..MaxAbscissa)
    IN  {<<o, p, q>> : o, p, q \in Points}

\* lagrange_polynomial up to the branch on size: the matrix, its determinant,
\* the raise when the determinant is zero, and the branches size == 1 and
\* size == 2, which finish at once
lagrange_polynomial(abscissas, dim, det) ==
    LET size == Len(abscissas)
        matrix == LagrangeMatrix(abscissas, dim)
        at == [LagIdle EXCEPT !.abscissas = abscissas, !.dim = dim, !.matrix = matrix,
                              !.det = det]
    IN  IF det = RZero THEN [at EXCEPT !.pc = "LinAlgError"]
        ELSE IF size = 1
        THEN [at EXCEPT !.pc = "done", !.coeffs = Zeros(size),
                        !.out = <<<<RInt(abscissas[1])>>>>]
        ELSE IF size = 2
        THEN [at EXCEPT !.pc = "done", !.coeffs = Inv2(matrix),
                        !.out = SumCoeffsVec(Inv2(matrix))]
        ELSE [at EXCEPT !.pc = "loop", !.coeffs = Zeros(size)]

\* one pass of the inner loop body of the general branch (i, j count from 0):
\* coeffs[i, j] += det(matrix[1:, 1:]), the rows rolled; after the last j the
\* columns are rolled; after the last i, coeffs /= det and the sum with vec
LagrangeLoopBody(l) ==
    LET size == Len(l.abscissas)
        added == [l.coeffs EXCEPT ![l.i + 1][l.j + 1] =
                     RAdd(@, RInt(Det(Sub11(l.matrix))))]
        rolled == RollRows(l.matrix)
        lastj == l.j + 1 = size
        lasti == lastj /\ l.i + 1 = size
    IN  IF lasti
        THEN [l EXCEPT !.pc = "done", !.i = size, !.j = 0,
                       !.matrix = RollCols(rolled),
                       !.coeffs = DivCoeffs(added, l.det),
                       !.out = SumCoeffsVec(DivCoeffs(added, l.det))]
        ELSE IF lastj
        THEN [l EXCEPT !.i = l.i + 1, !.j = 0, !.matrix = RollCols(rolled),
                       !.coeffs = added]
        ELSE [l EXCEPT !.j = l.j + 1, !.matrix = rolled, !.coeffs = added]

LagrangeCall ==
    /\ Quiet
    /\ \E dim \in 1..2 :
          \E abscissas \in (IF dim = 1 THEN AbscissaSeqs ELSE AbscissaPoints) :
             \E det \in LinalgDet(LagrangeMatrix(abscissas, dim)) :
                lag' = lagrange_polynomial(abscissas, dim, det)
    /\ UNCHANGED <<gs, dst, quad, desc>>

LagrangeStep ==
    /\ lag.pc = "loop"
    /\ lag' = LagrangeLoopBody(lag)
    /\ UNCHANGED <<gs, dst, quad, desc>>

LagrangeReturn ==
    /\ lag.pc \in {"done", "LinAlgError"}
    /\ lag' = LagIdle
    /\ UNCHANGED <<gs, dst, quad, desc>>

\* p_k(x_i) of the returned polynomials
LagAt(k, i) == PolyCall(lag.out[k], RInt(lag.abscissas[i]))

LagrangeInterpolates ==
    \A k, i \in 1..Len(lag.out) : LagAt(k, i) = (IF i = k THEN ROne ELSE RZero)

\* C11: when the interpolation matrix of lagrange_polynomial is singular, the
\* call raises numpy.linalg.LinAlgError before any coefficient is computed and
\* returns no polynomial (and is not run again).
C11_SingularRaises ==
    (lag.pc # "idle" /\ Det(lag.matrix) = 0) =>
        /\ lag.pc = "LinAlgError"
        /\ lag.coeffs = <<>>
        /\ lag.out = <<>>

\* C11 in one dimension: with two equal abscissas the call raises LinAlgError
\* before any coefficient is computed and returns no polynomial; and the
\* error is raised only for a singular matrix.
C11_EqualAbscissasRaise ==
    /\ (lag.pc # "idle" /\ lag.dim = 1 /\ ~Distinct(lag.abscissas)) =>
           /\ lag.pc = "LinAlgError"
           /\ lag.coeffs = <<>>
           /\ lag.out = <<>>
    /\ lag.pc = "LinAlgError" => Det(lag.matrix) = 0

\* three sample points on one line, not two of them equal, went through: the
\* determinant was returned as a residue and polynomials were returned
C11_Witness ==
    /\ lag.pc = "done"
    /\ lag.dim = 2
    /\ Det(lag.matrix) = 0
    /\ lag.det # RZero
    /\ Len(lag.out) = 3

\* C1: for n >= 2 pairwise distinct abscissas the returned polynomials satisfy
\* p_k(x_i) = 1 when i = k and 0 otherwise, for every n
C1_LagrangeKronecker ==
    (lag.pc = "done" /\ lag.dim = 1 /\ Len(lag.abscissas) >= 2 /\ Distinct(lag.abscissas))
        => LagrangeInterpolates


(***************************************************************************)
(* Polynomial arithmetic on coefficient sequences (numpoly).               *)
(***************************************************************************)
Coef(c, k) == IF k >= 1 /\ k <= Len(c) THEN c[k] ELSE RZero

Max(a, b) == IF a >= b THEN a ELSE b

PolyScale(c, r) == [k \in 1..Len(c) |-> RMul(c[k], r)]

PolySub(c1, c2) ==
    [k \in 1..Max(Len(c1), Len(c2)) |-> RSub(Coef(c1, k), Coef(c2, k))]

PolyMul(c1, c2) ==
    [k \in 1..(Len(c1) + Len(c2) - 1) |->
        RSumTo([i \in 1..Len(c1) |-> RMul(c1[i], Coef(c2, k + 1 - i))], Len(c1))]

\* numpoly.monomial(q0, start=0, stop=order): 1, q0, ..., q0**order
Monomial(order) ==
    [n \in 1..(order + 1) |->
        [k \in 1..n |-> IF k = n THEN ROne ELSE RZero]]

(***************************************************************************)
(* Square roots.  A polynomial or a number divided by numpy.sqrt(r) is     *)
(* kept exactly, as the pair of its rational part and the radicand r:      *)
(* [c |-> p, rad |-> r] stands for p / sqrt(r).  A radicand that is the    *)
(* square of a rational is folded into the rational part.                  *)
(***************************************************************************)
RECURSIVE ISqrtIn(_, _, _)
\* the largest k in lo..hi with k*k <= n
ISqrtIn(n, lo, hi) ==
    IF lo = hi THEN lo
    ELSE LET mid == (lo + hi + 1) \div 2
         IN  IF mid * mid <= n THEN ISqrtIn(n, mid, hi) ELSE ISqrtIn(n, lo, mid - 1)

ISqrt(n) == ISqrtIn(n, 0, IF n < 46340 THEN n ELSE 46340)

IsSquare(n) == n >= 0 /\ ISqrt(n) * ISqrt(n) = n

IsRSquare(r) == r[2] > 0 /\ IsSquare(r[1]) /\ IsSquare(r[2])

RSqrt(r) == <<ISqrt(r[1]), ISqrt(r[2])>>

Fold(p) ==
    IF IsRSquare(p.rad) /\ p.rad[1] > 0
    THEN [c |-> PolyScale(p.c, RDiv(ROne, RSqrt(p.rad))), rad |-> ROne]
    ELSE p

Plain(c) == [c |-> c, rad |-> ROne]

\* poly1 * poly2
SurdMul(p1, p2) == Fold([c |-> PolyMul(p1.c, p2.c), rad |-> RMul(p1.rad, p2.rad)])

\* poly * number, the number a / sqrt(rad)
SurdScale(p, num) ==
    Fold([c |-> PolyScale(p.c, num.a), rad |-> RMul(p.rad, num.rad)])

\* poly1 - poly2, both with the same radicand
SurdSub(p1, p2) == [c |-> PolySub(p1.c, p2.c), rad |-> p1.rad]

\* poly / numpy.sqrt(norms)
SurdDivSqrt(p, norms) == Fold([c |-> p.c, rad |-> RMul(p.rad, norms)])

(***************************************************************************)
(* distributions/collection/binomial.py: the moments                       *)
(***************************************************************************)
RECURSIVE Comb(_, _)
\* scipy.special.comb(n, k)
Comb(n, k) == IF k = 0 THEN 1 ELSE (Comb(n, k - 1) * (n - k + 1)) \div k

\* Binomial._pdf for x in 0..size
Binomial_pdf(x, size, prob) ==
    RMul(RInt(Comb(size, x)), RMul(RPow(prob, x), RPow(RSub(ROne, prob), size - x)))

\* Binomial._mom: numpy.sum(x_data**k_data * self._pdf(x_data, size, prob))
Binomial_mom(k, size, prob) ==
    RSumTo([x1 \in 1..(size + 1) |->
               RMul(RInt(Pow(x1 - 1, k)), Binomial_pdf(x1 - 1, size, prob))],
           size + 1)

\* the probabilities the Binomial distributions of the model are built with
Probs == {Rat(1, 2), Rat(1, 4)}

Dists == [size : 1..MaxBinomialSize, prob : Probs]

(***************************************************************************)
(* chaospy.descriptives.E(poly, dist): the expected value of a polynomial  *)
(* is the sum of its coefficients times the raw moments of dist.           *)
(***************************************************************************)
Moments(dist, n) == [k \in 1..n |-> Binomial_mom(k - 1, dist.size, dist.prob)]

\* expected value of the coefficient sequence c, mom the table of raw moments
ERat(c, mom) == RSumTo([k \in 1..Len(c) |-> RMul(c[k], mom[k])], Len(c))

E(poly, mom) == [a |-> ERat(poly.c, mom), rad |-> poly.rad]

(***************************************************************************)
(* orthogonal/gram_schmidt.py                                              *)
(***************************************************************************)
\* orth_gs has not been called
GsIdle ==
    [pc |-> "idle", normed |-> FALSE, mom |-> <<>>, dist |-> <<>>, order |-> 0,
     basis |-> <<>>, polynomials |-> <<>>, norms |-> <<>>, idx |-> 0, idy |-> 0,
     warning |-> -1, divisors |-> {}]

\* custom bases (order given as polynomials): 1, 1, q0 and 1, q0, 1 and
\* 1, q0, q0, q0
Q0 == <<RZero, ROne>>
CustomBases ==
    { <<<<ROne>>, <<ROne>>, Q0>>,
      <<<<ROne>>, Q0, <<ROne>>>>,
      <<<<ROne>>, Q0, Q0, Q0>> }

Plains(basis) == [n \in 1..Len(basis) |-> Plain(basis[n])]

\* orth_gs up to the loops: the basis, polynomials = [basis[0]], norms = [1.]
\* (order is 0 for a custom basis)
orth_gs(order, basis, dist, normed) ==
    [GsIdle EXCEPT
        !.pc = IF Len(basis) > 1 THEN "orth" ELSE "done",
        !.normed = normed, !.dist = dist, !.order = order,
        !.mom = Moments(dist, 2 * Len(basis)),
        !.basis = Plains(basis),
        !.polynomials = <<Plain(basis[1])>>,
        !.norms = IF normed THEN <<>> ELSE <<ROne>>,
        !.idx = 1, !.idy = 0]

\* the body of the loop over idy, in the normed and in the non-normed path:
\*   orth = E(basis[idx]*polynomials[idy], dist)
\*   basis[idx] = basis[idx] - polynomials[idy]*orth             (normed)
\*   basis[idx] = basis[idx] - polynomials[idy]*orth/norms[idy]  (not normed)
GsOrthBody(g) ==
    LET b == g.basis[g.idx + 1]
        p == g.polynomials[g.idy + 1]
        orth == E(SurdMul(b, p), g.mom)
        proj == IF g.normed
                THEN SurdScale(p, orth)
                ELSE [c |-> PolyScale(SurdScale(p, orth).c,
                                      RDiv(ROne, g.norms[g.idy + 1])),
                      rad |-> SurdScale(p, orth).rad]
    IN  [g EXCEPT
            !.basis[g.idx + 1] = SurdSub(b, proj),
            !.divisors = IF g.normed THEN @ ELSE @ \cup {g.norms[g.idy + 1]},
            !.idy = g.idy + 1,
            !.pc = IF g.idy + 1 = g.idx THEN "norm" ELSE "orth"]

\* a cutoff that lets a zero norm through
NormCutoffStrict(norms) == RLt(norms, RZero)

\* if norms <= 0 (normed path), if norms[-1] <= 0 (non-normed path)
NormCutoff(norms) == RLe(norms, RZero)

\* after the loop over idy:
\*   norms = E(polynomials[-1]**2, dist); if norms <= 0: warning, break
\*   basis[idx] = basis[idx] / numpy.sqrt(norms)       (normed)
\*   polynomials.append(basis[idx])
GsNormBody(g) ==
    LET last == g.polynomials[Len(g.polynomials)]
        norms == E(SurdMul(last, last), g.mom).a
        more == g.idx + 1 < Len(g.basis)
        b == g.basis[g.idx + 1]
    IN  IF NormCutoff(norms)
        THEN [g EXCEPT !.pc = "done", !.warning = g.idx,
                       !.norms = IF g.normed THEN <<norms>> ELSE Append(@, norms)]
        ELSE [g EXCEPT
                !.pc = IF more THEN "orth" ELSE "done",
                !.norms = IF g.normed THEN <<norms>> ELSE Append(@, norms),
                !.basis[g.idx + 1] = IF g.normed THEN SurdDivSqrt(b, norms) ELSE b,
                !.polynomials =
                    Append(@, IF g.normed THEN SurdDivSqrt(b, norms) ELSE b),
                !.divisors = IF g.normed THEN @ \cup {norms} ELSE @,
                !.idx = IF more THEN g.idx + 1 ELSE g.idx,
                !.idy = 0]

GsCall ==
    /\ Quiet
    /\ \E dist \in Dists, normed \in BOOLEAN :
          \/ \E order \in 1..MaxOrder :
                gs' = orth_gs(order, Monomial(order), dist, normed)
          \/ \E basis \in CustomBases :
                gs' = orth_gs(0, basis, dist, normed)
    /\ UNCHANGED <<lag, dst, quad, desc>>

GsOrth ==
    /\ gs.pc = "orth"
    /\ gs' = GsOrthBody(gs)
    /\ UNCHANGED <<lag, dst, quad, desc>>

GsNorm ==
    /\ gs.pc = "norm"
    /\ gs' = GsNormBody(gs)
    /\ UNCHANGED <<lag, dst, quad, desc>>

GsReturn ==
    /\ gs.pc = "done"
    /\ gs' = GsIdle
    /\ UNCHANGED <<lag, dst, quad, desc>>

\* E[p_i * p_j] is zero
Orthogonal(p1, p2) == ERat(PolyMul(p1.c, p2.c), gs.mom) = RZero

\* E[p**2]
Norm2(p) == RDiv(ERat(PolyMul(p.c, p.c), gs.mom), p.rad)

PairwiseOrthogonal ==
    \A i, j \in 1..Len(gs.polynomials) :
        i # j => Orthogonal(gs.polynomials[i], gs.polynomials[j])

\* C2: orth_gs(order, dist, normed=False) with an integer order >= 1 returns
\* pairwise orthogonal polynomials: E[p_i * p_j] = 0 for i # j
C2_GsOrthogonal ==
    (gs.pc = "done" /\ ~gs.normed /\ gs.order >= 1) => PairwiseOrthogonal


\* C3: with normed=True and positive norms (a Binomial distribution on
\* size+1 points and order <= size) every returned polynomial has E[p_i**2] = 1
\* and E[p_i * p_j] = 0 for i # j
C3_GsOrthonormal ==
    (gs.pc = "done" /\ gs.normed /\ gs.order >= 1 /\ gs.order <= gs.dist.size)
        => /\ PairwiseOrthogonal
           /\ \A i \in 1..Len(gs.polynomials) : Norm2(gs.polynomials[i]) = ROne

\* the norm computed at the latest pass of the loop over idx
LastNorm == gs.norms[Len(gs.norms)]

\* a norm has been computed and it is not positive
NormNotPositive == gs.pc # "idle" /\ gs.idx >= 1 /\ Len(gs.norms) >= 1
                   /\ (gs.normed \/ Len(gs.norms) >= 2) /\ RLe(LastNorm, RZero)

\* C4: orth_gs never divides by a non-positive norm, in either path; when the
\* norm computed at loop index idx is <= 0 the loop has stopped, the warning
\* names term idx, and fewer polynomials are returned than the basis holds
C4_NoDivisionByNonPositiveNorm ==
    /\ \A d \in gs.divisors : RLt(RZero, d)
    /\ NormNotPositive =>
          /\ gs.pc = "done"
          /\ gs.warning = gs.idx
          /\ Len(gs.polynomials) = gs.idx
          /\ Len(gs.polynomials) < Len(gs.basis)
    /\ gs.warning >= 0 => NormNotPositive

\* a cutoff in the normed path after a division by sqrt(norms)
C4_Witness ==
    gs.pc = "done" /\ gs.normed /\ gs.warning >= 1 /\ gs.divisors # {}

\* a cutoff in the non-normed path after a division by norms[idy]
C4_WitnessMonic ==
    gs.pc = "done" /\ ~gs.normed /\ gs.warning >= 1 /\ gs.divisors # {}

\* C15: every polynomial of the basis that orth_gs returns has a norm
\* E[p**2] > 0; a polynomial with a non-positive norm is not returned, be it
\* the one at which the cutoff warning is issued or the last of the basis
C15_PositiveNorms ==
    gs.pc = "done" =>
        \A i \in 1..Len(gs.polynomials) : RLt(RZero, Norm2(gs.polynomials[i]))

\* the same for an integer order only
C15_PositiveNormsOrder ==
    (gs.pc = "done" /\ gs.order >= 1) =>
        \A i \in 1..Len(gs.polynomials) : RLt(RZero, Norm2(gs.polynomials[i]))

\* what the cutoff does give: every polynomial but the last has a positive
\* norm, and so has the last one unless the loop ended with it
C15_PositiveNormsButLast ==
    gs.pc = "done" =>
        \A i \in 1..(Len(gs.polynomials) - 1) :
            RLt(RZero, Norm2(gs.polynomials[i]))

(***************************************************************************)
(* Fixed-point arithmetic for the transcendental functions of numpy and    *)
(* scipy.special: a real x is the integer round(x * Unit).  Products and   *)
(* quotients are taken in parts so that no intermediate value leaves the   *)
(* 32-bit integers of the model checker.                                   *)
(***************************************************************************)
\* a fixed-point number is split into two parts of three decimal digits
Part == 1000

\* the integer that stands for 1.0
Unit == Part * Part

\* a / n for an integer n > 0, rounded towards zero
IDiv(a, n) == Sign(a) * (Abs(a) \div n)

\* a * b
FMul(a, b) ==
    LET x == Abs(a)
        y == Abs(b)
        x1 == x \div Part
        x0 == x % Part
        y1 == y \div Part
        y0 == y % Part
        low == (x1 * y0 + x0 * y1 + ((x0 * y0 + (Part \div 2)) \div Part) + (Part \div 2))
                   \div Part
    IN  Sign(a) * Sign(b) * (x1 * y1 + low)

RECURSIVE FDivDigits(_, _, _)
\* the first n decimal digits of r / b, for 0 <= r < b
FDivDigits(r, b, n) ==
    IF n = 0 THEN 0
    ELSE ((r * 10) \div b) * Pow(10, n - 1) + FDivDigits((r * 10) % b, b, n - 1)

\* a / b
FDiv(a, b) ==
    LET x == Abs(a)
        y == Abs(b)
    IN  Sign(a) * Sign(b) * ((x \div y) * Unit + FDivDigits(x % y, y, 6))

\* the fixed-point number nearest to the rational r
ToFix(r) == Sign(r[1]) * ((Abs(r[1]) \div r[2]) * Unit + FDivDigits(Abs(r[1]) % r[2], r[2], 6))

\* numpy.e
FixE == 2718282

\* (2*numpy.pi)**-.5
InvSqrt2Pi == 398942

RECURSIVE ExpSeries(_, _)
\* 1 + f/k * (1 + f/(k+1) * (1 + ...)), the Taylor series of exp from term k on
ExpSeries(f, k) ==
    IF k > 10 THEN Unit ELSE Unit + IDiv(FMul(f, ExpSeries(f, k + 1)), k)

RECURSIVE FScaleE(_, _)
\* y * e**n
FScaleE(y, n) ==
    IF n = 0 THEN y
    ELSE IF n > 0 THEN FScaleE(FMul(y, FixE), n - 1)
    ELSE FScaleE(FDiv(y, FixE), n + 1)

\* floor(x) of a fixed-point number, as an integer
FFloor(x) == IF x >= 0 THEN x \div Unit ELSE -((-x + Unit - 1) \div Unit)

\* numpy.exp(x) = numpy.e**x = e**n * exp(x - n) for the integer n nearest to x
FExp(x) ==
    LET n == FFloor(x + Unit \div 2)
    IN  FScaleE(ExpSeries(x - n * Unit, 1), n)

RECURSIVE AtanhSeries(_, _, _)
\* z + z**3/3 + z**5/5 + ..., from the term pw = z**k on
AtanhSeries(pw, zz, k) ==
    IF k > 21 \/ pw = 0 THEN 0 ELSE IDiv(pw, k) + AtanhSeries(FMul(pw, zz), zz, k + 2)

RECURSIVE FLogIn(_, _)
\* numpy.log(y) = n + log(y / e**n), the quotient brought into [1, e)
FLogIn(y, n) ==
    IF y >= FixE THEN FLogIn(FDiv(y, FixE), n + 1)
    ELSE IF y < Unit THEN FLogIn(FMul(y, FixE), n - 1)
    ELSE LET z == FDiv(y - Unit, y + Unit)
         IN  n * Unit + 2 * AtanhSeries(z, FMul(z, z), 1)

\* numpy.log(y) for y > 0
FLog(y) == FLogIn(y, 0)

\* pow(a, b) for a > 0
FPow(a, b) == FExp(FMul(b, FLog(a)))

RECURSIVE SinSeries(_, _, _)
\* the Taylor series of sin or cos from the term t of index k on
SinSeries(t, xx, k) ==
    IF k > 19 \/ t = 0 THEN 0
    ELSE t + SinSeries(-IDiv(FMul(t, xx), (k + 1) * (k + 2)), xx, k + 2)

\* numpy.sin(x) and numpy.cos(x)
FSin(x) == SinSeries(x, FMul(x, x), 1)
FCos(x) == SinSeries(Unit, FMul(x, x), 0)

\* numpy.tan(x)
FTan(x) == FDiv(FSin(x), FCos(x))

RECURSIVE ArcsinNewton(_, _, _)
\* numpy.arcsin(v): the x in [-pi/2, pi/2] with sin(x) = v, by Newton's method
ArcsinNewton(v, x, n) ==
    LET d == FDiv(FSin(x) - v, FCos(x))
    IN  IF n = 0 \/ d = 0 THEN x ELSE ArcsinNewton(v, x - d, n - 1)

FArcsin(v) == ArcsinNewton(v, v, 8)

RECURSIVE ArctanNewton(_, _, _)
\* the x in [0, pi/2) with sin(x) = v cos(x), by Newton's method from x = 1
ArctanNewton(v, x, n) ==
    LET d == FDiv(FSin(x) - FMul(v, FCos(x)), FCos(x) + FMul(v, FSin(x)))
    IN  IF n = 0 \/ d = 0 THEN x ELSE ArctanNewton(v, x - d, n - 1)

\* numpy.arctan(v) = -numpy.arctan(-v)
FArctan(v) == Sign(v) * ArctanNewton(Abs(v), Unit, 8)

RECURSIVE NdtrSeries(_, _, _)
\* x + x**3/3 + x**5/(3*5) + ..., from the term t of index k on
NdtrSeries(t, xx, k) ==
    IF k > 81 \/ t = 0 THEN 0 ELSE t + NdtrSeries(IDiv(FMul(t, xx), k + 2), xx, k + 2)

\* scipy.special.ndtr(x), the standard normal distribution function
FNdtr(x) ==
    Unit \div 2
    + FMul(FMul(InvSqrt2Pi, FExp(-IDiv(FMul(x, x), 2))), NdtrSeries(x, FMul(x, x), 1))

RECURSIVE NdtriNewton(_, _, _)
\* scipy.special.ndtri(p): the x with ndtr(x) = p, by Newton's method
NdtriNewton(p, x, n) ==
    LET d == FDiv(FNdtr(x) - p, FMul(InvSqrt2Pi, FExp(-IDiv(FMul(x, x), 2))))
    IN  IF n = 0 \/ d = 0 THEN x ELSE NdtriNewton(p, x - d, n - 1)

FNdtri(p) == NdtriNewton(p, 0, 10)

(***************************************************************************)
(* The distributions.  A distribution is a record [kind, prm]: the class   *)
(* and the keyword parameters handed to Dist.__init__.  Binomial is        *)
(* evaluated exactly, in rationals; the continuous distributions in        *)
(* fixed-point numbers.                                                    *)
(***************************************************************************)
\* Dist.__init__(self, **prm): the parameters are stored as given
Dist__init__(kind, prm) == [kind |-> kind, prm |-> prm]

Binomial__init__(size, prob) == Dist__init__("Binomial", [size |-> size, prob |-> prob])
log_uniform__init__(lo, up) == Dist__init__("log_uniform", [lo |-> lo, up |-> up])
power_normal__init__(c) == Dist__init__("power_normal", [c |-> c])
wald__init__(mu) == Dist__init__("wald", [mu |-> mu])
Uniform__init__(lower, upper) == Dist__init__("Uniform", [lower |-> lower, upper |-> upper])

\* isinstance(dist, Dist): every subclass of Dist, the joint distribution J
\* included; a number and a failed construction are not
IsDist(dist) ==
    dist.kind \in {"Binomial", "log_uniform", "power_normal", "wald", "Uniform",
                   "Arcsin", "Arctan", "J"}

\* Arcsin.__init__ and Arctan.__init__: assert isinstance(dist, Dist)
Arcsin__init__(dist) ==
    IF IsDist(dist) THEN Dist__init__("Arcsin", [dist |-> dist])
    ELSE [kind |-> "AssertionError", prm |-> [dist |-> dist]]

Arctan__init__(dist) ==
    IF IsDist(dist) THEN Dist__init__("Arctan", [dist |-> dist])
    ELSE [kind |-> "AssertionError", prm |-> [dist |-> dist]]

\* numpy.floor of a rational, as an integer
RFloor(r) == r[1] \div r[2]

\* scipy.special.bdtr(k, n, p): the sum of the terms 0..k of the binomial density
Bdtr(k, n, p) ==
    LET top == IF k < n THEN k ELSE n
    IN  RSumTo([j \in 1..(top + 1) |-> Binomial_pdf(j - 1, n, p)], top + 1)

RECURSIVE BdtrikUp(_, _, _, _)
\* the smallest integer k in j..n with bdtr(k, n, p) >= q
BdtrikUp(q, n, p, j) ==
    IF j >= n \/ RLe(q, Bdtr(j, n, p)) THEN j ELSE BdtrikUp(q, n, p, j + 1)

\* scipy.special.bdtrik(q, n, p): the real k in [0, n] with bdtr(k, n, p) = q,
\* bdtr continued to the reals (increasing in k), found by a numerical search
\* for the root within [0, n], to a tolerance.  A real is given by the integers
\* next to it, [lo, hi] with lo = floor(k) and hi = ceil(k); the result is the
\* set of the reals the search can return.  Where the root is not an integer
\* the tolerance does not show.  Where q = bdtr(j, n, p) the root is the
\* integer j, and the search ends at j or next to it, on either side within
\* [0, n].  Below bdtr(0, n, p) the search stops at its lower bound 0.
Bdtrik(q, n, p) ==
    LET hi == BdtrikUp(q, n, p, 0)
    IN  IF Bdtr(hi, n, p) = q
        THEN {[lo |-> hi, hi |-> hi]}
             \cup (IF hi > 0 THEN {[lo |-> hi - 1, hi |-> hi]} ELSE {})
             \cup (IF hi < n THEN {[lo |-> hi, hi |-> hi + 1]} ELSE {})
        ELSE {[lo |-> IF hi = 0 THEN 0 ELSE hi - 1, hi |-> hi]}

\* numpy.ceil of such a real
Ceil(k) == k.hi

\* Binomial._cdf(x, size, prob) = special.bdtr(floor(x), floor(size), prob)
Binomial_cdf(x, size, prob) == Bdtr(RFloor(x), size, prob)

\* Binomial._ppf(q, size, prob) = ceil(special.bdtrik(q, floor(size), prob)):
\* the set of the values it can return
Binomial_ppf(q, size, prob) == {RInt(Ceil(k)) : k \in Bdtrik(q, size, prob)}

\* log_uniform._cdf(x, lo, up) = (log(x)-lo)/(up-lo)
log_uniform_cdf(x, lo, up) == FDiv(FLog(x) - lo, up - lo)

\* log_uniform._ppf(q, lo, up) = e**(q*(up-lo) + lo)
log_uniform_ppf(q, lo, up) == FExp(FMul(q, up - lo) + lo)

power_normal_cdfNoComplement(x, c) == FPow(FNdtr(-x), c)

\* power_normal._cdf(x, c) = 1.-special.ndtr(-x)**c
power_normal_cdf(x, c) == Unit - FPow(FNdtr(-x), c)

\* power_normal._ppf(q, c) = -special.ndtri(pow(1-q, 1./c))
power_normal_ppf(q, c) == -FNdtri(FPow(Unit - q, FDiv(Unit, c)))

\* Uniform: the uniform distribution on [lower, upper]
Uniform_cdf(x, lower, upper) == FDiv(x - lower, upper - lower)
Uniform_ppf(q, lower, upper) == FMul(q, upper - lower) + lower

\* evaluation.evaluate_forward(dist, x): the _cdf of dist with its parameters
RECURSIVE evaluate_forward(_, _)

\* evaluation.evaluate_inverse(dist, q): the _ppf of dist with its parameters,
\* for the distributions whose _ppf is a formula
RECURSIVE evaluate_inverse(_, _)

\* Arcsin._cdf and Arcsin._ppf
Arcsin_cdf(x, dist) == evaluate_forward(dist, FSin(x))
Arcsin_ppf(q, dist) == FArcsin(evaluate_inverse(dist, q))

\* Arctan._cdf and Arctan._ppf
Arctan_cdf(x, dist) == evaluate_forward(dist, FTan(x))
Arctan_ppf(q, dist) == FArctan(evaluate_inverse(dist, q))

evaluate_forward(dist, x) ==
    CASE dist.kind = "Binomial" -> Binomial_cdf(x, dist.prm.size, dist.prm.prob)
      [] dist.kind = "log_uniform" -> log_uniform_cdf(x, dist.prm.lo, dist.prm.up)
      [] dist.kind = "power_normal" -> power_normal_cdf(x, dist.prm.c)
      [] dist.kind = "Uniform" -> Uniform_cdf(x, dist.prm.lower, dist.prm.upper)
      [] dist.kind = "Arcsin" -> Arcsin_cdf(x, dist.prm.dist)
      [] dist.kind = "Arctan" -> Arctan_cdf(x, dist.prm.dist)

evaluate_inverse(dist, q) ==
    CASE dist.kind = "log_uniform" -> log_uniform_ppf(q, dist.prm.lo, dist.prm.up)
      [] dist.kind = "power_normal" -> power_normal_ppf(q, dist.prm.c)
      [] dist.kind = "Uniform" -> Uniform_ppf(q, dist.prm.lower, dist.prm.upper)
      [] dist.kind = "Arcsin" -> Arcsin_ppf(q, dist.prm.dist)
      [] dist.kind = "Arctan" -> Arctan_ppf(q, dist.prm.dist)

\* a value that is not a distribution: a number
Number(value) == [kind |-> "float", prm |-> [value |-> value]]

RECURSIVE get_forward_cache(_, _)
\* evaluation.get_forward_cache(dist, cache): the value the cache holds for
\* dist; without one, what the _fwd_cache of dist makes of the cache, if it has
\* that method; else dist itself, still to be evaluated
get_forward_cache(dist, cache) ==
    IF dist \in DOMAIN cache THEN Number(cache[dist])
    ELSE IF dist.kind \in {"Arcsin", "Arctan"}
    THEN LET inner == get_forward_cache(dist.prm.dist, cache)
         IN  IF ~IsDist(inner)
             THEN Number(IF dist.kind = "Arcsin" THEN FArcsin(inner.prm.value)
                                                 ELSE FArctan(inner.prm.value))
             ELSE dist
    ELSE dist

Arcsin_fwd_cacheSelf(self, cache) ==
    LET dist == get_forward_cache(self, cache)
    IN  IF ~IsDist(dist) THEN Number(FArcsin(dist.prm.value)) ELSE self

\* Arcsin._fwd_cache(self, cache)
Arcsin_fwd_cache(self, cache) ==
    LET dist == get_forward_cache(self.prm.dist, cache)
    IN  IF ~IsDist(dist) THEN Number(FArcsin(dist.prm.value)) ELSE self

\* Arcsin._inv_cache(self, cache)
Arcsin_inv_cache(self, cache) ==
    LET dist == get_forward_cache(self.prm.dist, cache)
    IN  IF ~IsDist(dist) THEN Number(FSin(dist.prm.value)) ELSE self

\* Arctan._fwd_cache(self, cache)
Arctan_fwd_cache(self, cache) ==
    LET dist == get_forward_cache(self.prm.dist, cache)
    IN  IF ~IsDist(dist) THEN Number(FArctan(dist.prm.value)) ELSE self

\* Arctan._inv_cache(self, cache)
Arctan_inv_cache(self, cache) ==
    LET dist == get_forward_cache(self.prm.dist, cache)
    IN  IF ~IsDist(dist) THEN Number(FTan(dist.prm.value)) ELSE self

\* the number q as the distribution computes with it
AsNumber(dist, q) == IF dist.kind = "Binomial" THEN q ELSE ToFix(q)

\* Dist.inv(q), the set of the values it can return, and Dist.fwd(x)
Dist_inv(dist, q) ==
    IF dist.kind = "Binomial" THEN Binomial_ppf(q, dist.prm.size, dist.prm.prob)
    ELSE {evaluate_inverse(dist, AsNumber(dist, q))}
Dist_fwd(dist, x) == evaluate_forward(dist, x)

\* the parameters of a distribution lie outside its domain
OutsideDomain(dist) ==
    CASE dist.kind = "Binomial" ->
             \/ RLt(dist.prm.prob, RZero)
             \/ RLt(ROne, dist.prm.prob)
             \/ dist.prm.size < 0
      [] dist.kind = "log_uniform" -> dist.prm.lo >= dist.prm.up
      [] dist.kind = "power_normal" -> dist.prm.c <= 0
      [] dist.kind = "wald" -> dist.prm.mu <= 0
      [] OTHER -> FALSE

\* the arguments of the calls
BinomialProbs == {Rat(-1, 2), Rat(1, 4), Rat(1, 2), Rat(3, 2)}
BinomialSizes == {-1} \cup 1..MaxTrials
Ends == {ToFix(RInt(n)) : n \in (-1)..1}
Shapes == {ToFix(RInt(n)) : n \in (-1)..2}
ArcsinArgs ==
    << Uniform__init__(0, Unit), Uniform__init__(-(Unit \div 2), Unit \div 2),
       log_uniform__init__(-Unit, 0), [kind |-> "float", prm |-> [value |-> Unit]] >>
ArctanArgs ==
    << Uniform__init__(-(Unit \div 2), Unit \div 2), log_uniform__init__(0, Unit),
       power_normal__init__(2 * Unit), Arcsin__init__(Uniform__init__(0, Unit)),
       [kind |-> "float", prm |-> [value |-> Unit]] >>
Quantiles == UNION {{Rat(k, d) : k \in 0..d} : d \in {5, 7, 8}}

\* the values a cache holds
CacheValues == {-(Unit \div 2), 0, Unit \div 2}

\* the distributions a cache can hold a value for: the combinator, the
\* distribution inside it, and the one inside that
CacheKeys(dist) ==
    {dist, dist.prm.dist}
        \cup (IF dist.prm.dist.kind \in {"Arcsin", "Arctan"} THEN {dist.prm.dist.prm.dist}
              ELSE {})

\* the caches: values for some of the distributions
Caches(dist) == UNION {[keys -> CacheValues] : keys \in SUBSET CacheKeys(dist)}

DstIdle ==
    [pc |-> "idle", dist |-> [kind |-> "none"], q |-> RZero, x |-> 0, y |-> 0,
     method |-> "", cache |-> <<>>, out |-> [kind |-> "none"]]

\* a distribution is constructed
DistConstructed(dist) ==
    /\ Quiet
    /\ dst' = [DstIdle EXCEPT !.pc = IF dist.kind = "AssertionError" THEN "AssertionError"
                                                                      ELSE "constructed",
                             !.dist = dist]
    /\ UNCHANGED <<lag, gs, quad, desc>>

BinomialConstruct ==
    \E size \in BinomialSizes, prob \in BinomialProbs :
        DistConstructed(Binomial__init__(size, prob))

LogUniformConstruct ==
    \E lo \in Ends, up \in Ends : DistConstructed(log_uniform__init__(lo, up))

PowerNormalConstruct == \E c \in Shapes : DistConstructed(power_normal__init__(c))

WaldConstruct == \E mu \in Shapes : DistConstructed(wald__init__(mu))

ArcsinConstruct ==
    \E i \in 1..Len(ArcsinArgs) : DistConstructed(Arcsin__init__(ArcsinArgs[i]))

ArctanConstruct ==
    \E i \in 1..Len(ArctanArgs) : DistConstructed(Arctan__init__(ArctanArgs[i]))

\* distribution.inv(q), for a distribution inside its domain that has a _ppf
\* (wald has none); the continuous distributions take q in (0, 1)
DistInv ==
    /\ dst.pc = "constructed"
    /\ dst.dist.kind # "wald"
    /\ ~OutsideDomain(dst.dist)
    /\ \E q \in Quantiles :
          /\ dst.dist.kind # "Binomial" => (RLt(RZero, q) /\ RLt(q, ROne))
          /\ \E x \in Dist_inv(dst.dist, q) :
                dst' = [dst EXCEPT !.pc = "inverted", !.q = q, !.x = x]
    /\ UNCHANGED <<lag, gs, quad, desc>>

\* distribution.fwd(distribution.inv(q))
DistFwd ==
    /\ dst.pc = "inverted"
    /\ dst' = [dst EXCEPT !.pc = "evaluated", !.y = Dist_fwd(dst.dist, dst.x)]
    /\ UNCHANGED <<lag, gs, quad, desc>>

\* distribution._fwd_cache(cache) of a combinator
DistFwdCache ==
    /\ dst.pc = "constructed"
    /\ dst.dist.kind \in {"Arcsin", "Arctan"}
    /\ \E cache \in Caches(dst.dist) :
          dst' = [dst EXCEPT !.pc = "cached", !.method = "_fwd_cache", !.cache = cache,
                             !.out = IF dst.dist.kind = "Arcsin"
                                     THEN Arcsin_fwd_cache(dst.dist, cache)
                                     ELSE Arctan_fwd_cache(dst.dist, cache)]
    /\ UNCHANGED <<lag, gs, quad, desc>>

\* distribution._inv_cache(cache) of a combinator
DistInvCache ==
    /\ dst.pc = "constructed"
    /\ dst.dist.kind \in {"Arcsin", "Arctan"}
    /\ \E cache \in Caches(dst.dist) :
          dst' = [dst EXCEPT !.pc = "cached", !.method = "_inv_cache", !.cache = cache,
                             !.out = IF dst.dist.kind = "Arcsin"
                                     THEN Arcsin_inv_cache(dst.dist, cache)
                                     ELSE Arctan_inv_cache(dst.dist, cache)]
    /\ UNCHANGED <<lag, gs, quad, desc>>

\* the distribution is dropped
DistReturn ==
    /\ dst.pc \in {"constructed", "evaluated", "cached", "AssertionError"}
    /\ dst' = DstIdle
    /\ UNCHANGED <<lag, gs, quad, desc>>

(***************************************************************************)
(* Properties of the distributions.                                        *)
(***************************************************************************)
\* the tolerance 1e-4 of a round trip
Tol == Unit \div 10000

\* a is b within the tolerance, for the numbers the distribution computes with
Close(dist, a, b) ==
    IF dist.kind = "Binomial"
    THEN RLe(RSub(a, b), Rat(1, 10000)) /\ RLe(RSub(b, a), Rat(1, 10000))
    ELSE Abs(a - b) <= Tol

\* forward(inverse(q)) has been computed for a q in (0, 1)
RoundTripDone == dst.pc = "evaluated" /\ RLt(RZero, dst.q) /\ RLt(dst.q, ROne)

\* C5: for every distribution of the repository (Binomial, log_uniform,
\* power_normal, Arcsin, Arctan) and every q in (0, 1), forward(inverse(q)) is
\* q within the tolerance 1e-4.
C5_RoundTripAll ==
    RoundTripDone => Close(dst.dist, dst.y, AsNumber(dst.dist, dst.q))

\* C5, amended: the round trip returns q within 1e-4 for the continuous
\* distributions log_uniform, power_normal, Arcsin and Arctan; for Binomial
\* forward(inverse(q)) is a value of the distribution function that is at least
\* q, and the value before it is at most q:
\* forward(inverse(q) - 1) <= q <= forward(inverse(q)).
C5_RoundTrip ==
    RoundTripDone =>
        IF dst.dist.kind = "Binomial"
        THEN /\ RLe(dst.q, dst.y)
             /\ dst.y = Binomial_cdf(dst.x, dst.dist.prm.size, dst.dist.prm.prob)
             /\ dst.x[2] = 1
             /\ dst.x[1] \in 0..dst.dist.prm.size
             /\ dst.x[1] >= 1 =>
                   RLe(Binomial_cdf(RInt(dst.x[1] - 1), dst.dist.prm.size,
                                    dst.dist.prm.prob), dst.q)
        ELSE Close(dst.dist, dst.y, AsNumber(dst.dist, dst.q))

\* a continuous operator distribution has made the round trip
C5_Witness ==
    /\ RoundTripDone
    /\ dst.dist.kind = "Arctan"
    /\ dst.dist.prm.dist.kind = "power_normal"
    /\ dst.y # 0

\* a Binomial round trip that does not return q
C5_WitnessBinomial ==
    /\ RoundTripDone
    /\ dst.dist.kind = "Binomial"
    /\ dst.y # dst.q

\* the doctest of Binomial: distribution.inv(numpy.linspace(0, 1, 8))
BinomialDoctest == <<0, 1, 2, 2, 3, 3, 4, 5>>

\* C6: for Binomial(size=N, prob=p) with N >= 1 and 0 < p < 1 and every q in
\* (0, 1], inverse(q) is the smallest integer k in 0..N with forward(k) >= q:
\* forward(inverse(q)) >= q, forward(inverse(q) - 1) < q, and inverse is
\* non-decreasing in q; for N = 5, p = 0.5 and q = 0, 1/7, ..., 1 the inverse is
\* 0, 1, 2, 2, 3, 3, 4, 5.
C6_GeneralizedInverse ==
    (dst.pc \in {"inverted", "evaluated"} /\ dst.dist.kind = "Binomial") =>
        LET size == dst.dist.prm.size
            prob == dst.dist.prm.prob
            k == dst.x
            F(j) == Binomial_cdf(RInt(j), size, prob)
        IN  /\ RLt(RZero, dst.q) =>
                 /\ k[2] = 1
                 /\ k[1] \in 0..size
                 /\ RLe(dst.q, F(k[1]))
                 /\ \A j \in 0..size : RLe(dst.q, F(j)) => k[1] <= j
                 /\ k[1] >= 1 => RLt(F(k[1] - 1), dst.q)
                 /\ \A q \in Quantiles :
                       RLt(q, dst.q) => \A x \in Binomial_ppf(q, size, prob) : RLe(x, k)
                 /\ dst.pc = "evaluated" => RLe(dst.q, dst.y)
            /\ (size = 5 /\ prob = Rat(1, 2) /\ dst.q[2] \in {1, 7}) =>
                 k = RInt(BinomialDoctest[(7 * dst.q[1]) \div dst.q[2] + 1])

\* q is a value of the distribution function below its last
Tie(q, size, prob) ==
    \E j \in 0..(size - 1) : Binomial_cdf(RInt(j), size, prob) = q

\* C6, away from the values of the distribution function: for every q in (0, 1]
\* that is not forward(j) for a j < N, inverse(q) is the smallest integer k in
\* 0..N with forward(k) >= q; for q = forward(j) it is j or j + 1; inverse is
\* non-decreasing in q, and the doctest's values are returned.
C6_AwayFromTies ==
    (dst.pc \in {"inverted", "evaluated"} /\ dst.dist.kind = "Binomial") =>
        LET size == dst.dist.prm.size
            prob == dst.dist.prm.prob
            k == dst.x
            F(j) == Binomial_cdf(RInt(j), size, prob)
        IN  /\ RLt(RZero, dst.q) =>
                 /\ k[2] = 1
                 /\ k[1] \in 0..size
                 /\ RLe(dst.q, F(k[1]))
                 /\ k[1] >= 1 => RLe(F(k[1] - 1), dst.q)
                 /\ ~Tie(dst.q, size, prob) =>
                       /\ \A j \in 0..size : RLe(dst.q, F(j)) => k[1] <= j
                       /\ k[1] >= 1 => RLt(F(k[1] - 1), dst.q)
                 /\ \A q \in Quantiles :
                       RLt(q, dst.q) => \A x \in Binomial_ppf(q, size, prob) : RLe(x, k)
            /\ (size = 5 /\ prob = Rat(1, 2) /\ dst.q[2] \in {1, 7}) =>
                 k = RInt(BinomialDoctest[(7 * dst.q[1]) \div dst.q[2] + 1])

\* the doctest's q = 3/7: the inverse is 2 and forward(2) = 1/2
C6_Witness ==
    /\ dst.pc = "evaluated"
    /\ dst.dist.kind = "Binomial"
    /\ dst.dist.prm.size = 5
    /\ dst.dist.prm.prob = Rat(1, 2)
    /\ dst.q = Rat(3, 7)
    /\ dst.x = RInt(2)
    /\ dst.y = Rat(1, 2)

\* the plain numeric transform of a method of a combinator
Transform(kind, method, value) ==
    CASE kind = "Arcsin" /\ method = "_fwd_cache" -> FArcsin(value)
      [] kind = "Arcsin" /\ method = "_inv_cache" -> FSin(value)
      [] kind = "Arctan" /\ method = "_fwd_cache" -> FArctan(value)
      [] kind = "Arctan" /\ method = "_inv_cache" -> FTan(value)

\* C12: for the combinators Arcsin and Arctan, _fwd_cache and _inv_cache look
\* up the inner distribution, not the combinator, in the cache; when the value
\* found for the inner distribution is a number they return a plain numeric
\* transform of it (_fwd_cache: arcsin resp. arctan; _inv_cache: sin resp. tan),
\* and when it is still a distribution they return the combinator itself.
C12_CacheLookup ==
    dst.pc = "cached" =>
        LET self == dst.dist
            inner == self.prm.dist
            cache == dst.cache
            nested == inner.kind \in {"Arcsin", "Arctan"}
        IN  IF inner \in DOMAIN cache
            THEN dst.out = Number(Transform(self.kind, dst.method, cache[inner]))
            ELSE IF nested /\ inner.prm.dist \in DOMAIN cache
            THEN dst.out = Number(Transform(self.kind, dst.method,
                                            Transform(inner.kind, "_fwd_cache",
                                                      cache[inner.prm.dist])))
            ELSE dst.out = self

\* the cache holds different values for the combinator and for the inner
\* distribution, and _inv_cache returned the transform of the inner one
C12_Witness ==
    /\ dst.pc = "cached"
    /\ dst.method = "_inv_cache"
    /\ dst.dist.kind = "Arcsin"
    /\ dst.dist \in DOMAIN dst.cache
    /\ dst.dist.prm.dist \in DOMAIN dst.cache
    /\ dst.cache[dst.dist] # dst.cache[dst.dist.prm.dist]
    /\ dst.out = Number(FSin(dst.cache[dst.dist.prm.dist]))

\* nothing is cached for the inner distribution: the combinator is returned
C12_WitnessPending ==
    /\ dst.pc = "cached"
    /\ dst.method = "_fwd_cache"
    /\ dst.dist \in DOMAIN dst.cache
    /\ dst.dist.prm.dist \notin DOMAIN dst.cache
    /\ dst.out = dst.dist

\* C10: constructing a distribution with parameters outside its domain
\* (Binomial with prob outside [0, 1] or negative size, log_uniform with
\* lo >= up, power_normal with c <= 0, wald with mu <= 0) raises
\* InvalidParameterError during construction.
C10_InvalidParameterError ==
    (dst.pc # "idle" /\ OutsideDomain(dst.dist)) => dst.pc = "InvalidParameterError"

(***************************************************************************)
(* quadrature/gaussian.py.  Numbers are fixed-point; an array is a         *)
(* sequence, a two-dimensional array a sequence of rows.                   *)
(***************************************************************************)
RECURSIVE ToSeq(_, _)
\* the array f[1], ..., f[n]
ToSeq(f, n) == IF n = 0 THEN <<>> ELSE Append(ToSeq(f, n - 1), f[n])

RECURSIVE FDot(_, _, _)
\* numpy.sum(w*f) over the first n entries
FDot(w, f, n) == IF n = 0 THEN 0 ELSE FDot(w, f, n - 1) + FMul(w[n], f[n])

RECURSIVE FSum(_, _)
\* numpy.sum(w) over the first n entries
FSum(w, n) == IF n = 0 THEN 0 ELSE FSum(w, n - 1) + w[n]

RECURSIVE SqrtNewton(_, _, _)
\* numpy.sqrt(a) for a > 0, by Newton's method
SqrtNewton(a, y, n) ==
    LET z == (y + FDiv(a, y)) \div 2
    IN  IF n = 0 \/ z = y THEN z ELSE SqrtNewton(a, z, n - 1)

FSqrt(a) == IF a <= 0 THEN 0 ELSE SqrtNewton(a, (a + Unit) \div 2, 30)

RECURSIVE StieltjesLoop(_, _, _, _, _, _, _, _, _)
\* step k of the Stieltjes procedure on the discrete measure (x, w): the norm
\* of the monic polynomial pi_k, alpha_k, beta_k, and the values of pi_(k+1)
StieltjesLoop(k, order, x, w, piPrev, piCur, normPrev, alpha, beta) ==
    LET n == Len(x)
        sq == ToSeq([i \in 1..n |-> FMul(piCur[i], piCur[i])], n)
        norm == FDot(w, sq, n)
        a == FDiv(FDot(w, ToSeq([i \in 1..n |-> FMul(x[i], sq[i])], n), n), norm)
        b == IF k = 0 THEN norm ELSE FDiv(norm, normPrev)
        piNext == ToSeq([i \in 1..n |-> FMul(x[i] - a, piCur[i]) - FMul(b, piPrev[i])], n)
    IN  IF k = order THEN [alpha |-> Append(alpha, a), beta |-> Append(beta, b)]
        ELSE StieltjesLoop(k + 1, order, x, w, piCur, piNext, norm,
                           Append(alpha, a), Append(beta, b))

\* chaospy.quadrature.discretized_stieltjes(order, [abscissas], weights): the
\* recurrence coefficients alpha[0..order], beta[0..order] of the measure
discretized_stieltjes(order, abscissas, weights) ==
    StieltjesLoop(0, order, abscissas, weights,
                  ToSeq([i \in 1..Len(abscissas) |-> 0], Len(abscissas)),
                  ToSeq([i \in 1..Len(abscissas) |-> Unit], Len(abscissas)),
                  Unit, <<>>, <<>>)

\* Binomial._ttr(k_data, size, prob), the Krawtchouk rule: the last of the
\* coefficients of the measure on 0..size with the weights of _pdf
Binomial_ttr(k_data, size, prob) ==
    LET abscissas == ToSeq([i \in 1..(size + 1) |-> (i - 1) * Unit], size + 1)
        weights == ToSeq([i \in 1..(size + 1) |-> ToFix(Binomial_pdf(i - 1, size, prob))],
                         size + 1)
        ab == discretized_stieltjes(k_data, abscissas, weights)
    IN  <<ab.alpha[k_data + 1], ab.beta[k_data + 1]>>

\* chaospy.J(d1, d2): the joint distribution of independent components
J__init__(d1, d2) == Dist__init__("J", [dists |-> <<d1, d2>>])

RECURSIVE DistLen(_)
\* len(dist): the number of components of J, len(self.prm["dist"]) for Arcsin
\* and Arctan, 1 for the univariate distributions
DistLen(dist) ==
    IF dist.kind = "J" THEN Len(dist.prm.dists)
    ELSE IF dist.kind \in {"Arcsin", "Arctan"} THEN DistLen(dist.prm.dist)
    ELSE 1

\* the components of a distribution, one per dimension
Components(dist) == IF dist.kind = "J" THEN dist.prm.dists ELSE <<dist>>

\* the distribution implements the three terms recurrence (has a _ttr)
HasTtr(dist) == dist.kind = "Binomial"

\* the analytical recurrence of one dimension: dist.ttr(0), ..., dist.ttr(order)
AnalyticalCoefficients(order, dist) ==
    LET ab == ToSeq([k \in 1..(order + 1) |->
                        Binomial_ttr(k - 1, dist.prm.size, dist.prm.prob)], order + 1)
    IN  [alpha |-> ToSeq([k \in 1..(order + 1) |-> ab[k][1]], order + 1),
         beta |-> ToSeq([k \in 1..(order + 1) |-> ab[k][2]], order + 1)]

\* the proxy quadrature of order accuracy of one dimension: accuracy+1 points
\* of equal weight at the quantiles (2i-1)/(2(accuracy+1))
ProxyQuadrature(accuracy, dist) ==
    [abscissas |-> ToSeq([i \in 1..(accuracy + 1) |->
                             evaluate_inverse(dist, ToFix(Rat(2 * i - 1, 2 * (accuracy + 1))))],
                         accuracy + 1),
     weights |-> ToSeq([i \in 1..(accuracy + 1) |-> Unit \div (accuracy + 1)], accuracy + 1)]

\* the discretized recurrence of one dimension
DiscretizedCoefficients(order, dist, accuracy) ==
    LET proxy == ProxyQuadrature(accuracy, dist)
    IN  discretized_stieltjes(order, proxy.abscissas, proxy.weights)

ChooseAlgorithmNoFallback(recurrence_algorithm, analytical) ==
    IF recurrence_algorithm = "" THEN "analytical" ELSE recurrence_algorithm

\* the algorithm that is run: with none named the analytical recurrence is tried
\* first and stieltjes is used if the distribution does not implement it
ChooseAlgorithm(recurrence_algorithm, analytical) ==
    IF recurrence_algorithm = ""
    THEN (IF analytical THEN "analytical" ELSE "stieltjes")
    ELSE recurrence_algorithm

\* construct_recurrence_coefficients(order, dist, rule, accuracy,
\* recurrence_algorithm): the coefficients of every dimension, or
\* NotImplementedError if the analytical recurrence is run and not implemented
construct_recurrence_coefficients(order, dist, rule, accuracy, recurrence_algorithm) ==
    LET parts == Components(dist)
        analytical == \A d \in 1..Len(parts) : HasTtr(parts[d])
        used == ChooseAlgorithm(recurrence_algorithm, analytical)
    IN  IF used = "analytical" /\ ~analytical
        THEN [raised |-> "NotImplementedError", used |-> used, coefficients |-> <<>>]
        ELSE [raised |-> "",
              used |-> used,
              coefficients |->
                  ToSeq([d \in 1..Len(parts) |->
                            IF used = "analytical"
                            THEN AnalyticalCoefficients(order, parts[d])
                            ELSE DiscretizedCoefficients(order, parts[d], accuracy)],
                        Len(parts))]

\* the Jacobi matrix of the coefficients: the diagonal alpha and the
\* off-diagonal sqrt(beta[1:]); beta[0] is the mass of the measure
JacobiMatrix(ab) ==
    [diagonal |-> ab.alpha,
     off |-> ToSeq([k \in 1..(Len(ab.beta) - 1) |-> FSqrt(ab.beta[k + 1])], Len(ab.beta) - 1),
     mass |-> ab.beta[1]]

RECURSIVE Orthonormals(_, _, _)
\* the values p[0], ..., p[k] at x of the orthonormal polynomials, which the
\* rows of the Jacobi matrix define by
\* off[k] p[k] = (x - diagonal[k]) p[k-1] - off[k-1] p[k-2]; for the last
\* polynomial, whose zeros are the eigenvalues, off[k] is taken as 1
Orthonormals(k, x, matrix) ==
    IF k = 0 THEN <<FDiv(Unit, FSqrt(matrix.mass))>>
    ELSE LET p == Orthonormals(k - 1, x, matrix)
             last == FMul(x - matrix.diagonal[k], p[k])
             rest == IF k = 1 THEN 0 ELSE FMul(matrix.off[k - 1], p[k - 1])
             scale == IF k <= Len(matrix.off) THEN matrix.off[k] ELSE Unit
         IN  Append(p, FDiv(last - rest, scale))

Orthonormal(k, x, matrix) == Orthonormals(k, x, matrix)[k + 1]

RECURSIVE Bisect(_, _, _, _, _)
\* the eigenvalue between lo and hi: the zero of the polynomial of degree n,
\* which is negative at lo exactly if rising
Bisect(n, matrix, lo, hi, rising) ==
    IF hi - lo <= 1 THEN hi
    ELSE LET mid == lo + (hi - lo) \div 2
         IN  IF (Orthonormal(n, mid, matrix) < 0) = rising
             THEN Bisect(n, matrix, mid, hi, rising)
             ELSE Bisect(n, matrix, lo, mid, rising)

RECURSIVE SeqMax(_, _)
SeqMax(f, n) == IF n = 1 THEN f[1] ELSE Max(SeqMax(f, n - 1), f[n])

RECURSIVE SeqMin(_, _)
SeqMin(f, n) == IF n = 1 THEN f[1] ELSE -Max(-SeqMin(f, n - 1), -f[n])

RECURSIVE Eigenvalues(_, _)
\* the eigenvalues of the Jacobi matrix of size n, in increasing order; they
\* lie between those of the matrix of size n-1 and within its Gershgorin discs
Eigenvalues(n, matrix) ==
    IF n = 0 THEN <<>>
    ELSE LET m == Len(matrix.diagonal)
             radius == IF m = 1 THEN Unit ELSE 2 * SeqMax(matrix.off, m - 1) + Unit
             seps == <<SeqMin(matrix.diagonal, m) - radius>> \o Eigenvalues(n - 1, matrix)
                         \o <<SeqMax(matrix.diagonal, m) + radius>>
         IN  ToSeq([i \in 1..n |->
                       Bisect(n, matrix, seps[i], seps[i + 1],
                              Orthonormal(n, seps[i], matrix) < 0)], n)

\* beta[0] times the squared first component of the normalized eigenvector
\* (p[0], ..., p[n-1]) of the eigenvalue x
EigenWeight(n, x, matrix) ==
    LET p == Orthonormals(n - 1, x, matrix)
    IN  FDiv(Unit, FDot(p, p, n))

\* the eigenvalues of the Jacobi matrix and the weights from its eigenvectors
GolubWelsch(ab) ==
    LET matrix == JacobiMatrix(ab)
        n == Len(ab.alpha)
        nodes == Eigenvalues(n, matrix)
    IN  [abscissas |-> nodes,
         weights |-> ToSeq([i \in 1..n |-> EigenWeight(n, nodes[i], matrix)], n)]

\* coefficients_to_quadrature(coefficients): per dimension, the abscissas and
\* weights of the coefficients
coefficients_to_quadrature(coefficients) ==
    LET dim == Len(coefficients)
        rules == ToSeq([d \in 1..dim |-> GolubWelsch(coefficients[d])], dim)
    IN  [abscissas |-> ToSeq([d \in 1..dim |-> rules[d].abscissas], dim),
         weights |-> ToSeq([d \in 1..dim |-> rules[d].weights], dim)]

RECURSIVE Product(_, _)
\* the product of the integers f[1..n]
Product(f, n) == IF n = 0 THEN 1 ELSE Product(f, n - 1) * f[n]

\* the index in dimension d of the joint point at position pos (from 1), the
\* first dimension varying slowest
IndexAt(pos, d, sizes) ==
    LET later == Product([e \in 1..(Len(sizes) - d) |-> sizes[d + e]], Len(sizes) - d)
    IN  (((pos - 1) \div later) % sizes[d]) + 1

IndexAtFastest(pos, d, sizes) ==
    LET earlier == Product(sizes, d - 1)
    IN  (((pos - 1) \div earlier) % sizes[d]) + 1

RECURSIVE FProduct(_, _)
\* the product of the numbers f[1..n]
FProduct(f, n) == IF n = 0 THEN Unit ELSE FMul(FProduct(f, n - 1), f[n])

combine_quadratureFastest(abscissas, weights) ==
    LET dim == Len(abscissas)
        sizes == ToSeq([d \in 1..dim |-> Len(abscissas[d])], dim)
        count == Product(sizes, dim)
    IN  [abscissas |->
             ToSeq([d \in 1..dim |->
                       ToSeq([pos \in 1..count |-> abscissas[d][IndexAtFastest(pos, d, sizes)]],
                             count)], dim),
         weights |->
             ToSeq([pos \in 1..count |->
                       FProduct([d \in 1..dim |-> weights[d][IndexAt(pos, d, sizes)]], dim)],
                   count)]

\* combine_quadrature(abscissas, weights): the full tensor product of the rules
\* of the dimensions
combine_quadrature(abscissas, weights) ==
    LET dim == Len(abscissas)
        sizes == ToSeq([d \in 1..dim |-> Len(abscissas[d])], dim)
        count == Product(sizes, dim)
    IN  [abscissas |->
             ToSeq([d \in 1..dim |->
                       ToSeq([pos \in 1..count |-> abscissas[d][IndexAt(pos, d, sizes)]],
                             count)], dim),
         weights |->
             ToSeq([pos \in 1..count |->
                       FProduct([d \in 1..dim |-> weights[d][IndexAt(pos, d, sizes)]], dim)],
                   count)]

\* the arguments of the calls of quad_gaussian
QuadDists ==
    << Binomial__init__(1, Rat(1, 2)),
       Binomial__init__(MaxBinomialSize, Rat(1, 4)),
       log_uniform__init__(0, Unit),
       log_uniform__init__(-Unit, Unit),
       power_normal__init__(Unit),
       power_normal__init__(2 * Unit),
       J__init__(Binomial__init__(MaxBinomialSize, Rat(1, 2)),
                 Binomial__init__(MaxBinomialSize, Rat(1, 4))),
       J__init__(log_uniform__init__(0, Unit), power_normal__init__(Unit)),
       J__init__(power_normal__init__(2 * Unit), log_uniform__init__(-Unit, Unit)),
       J__init__(Binomial__init__(MaxBinomialSize, Rat(1, 2)), log_uniform__init__(0, Unit)) >>

Algorithms == {"", "analytical", "stieltjes", "chebyshev", "lanczos"}

\* the measure of every dimension has more points than the order: a Binomial
\* distribution is taken with its own recurrence and an order up to its size,
\* the others with an order up to the accuracy of the proxy quadrature
Determined(order, dist, accuracy, recurrence_algorithm) ==
    LET parts == Components(dist)
        analytical == \A d \in 1..Len(parts) : HasTtr(parts[d])
    IN  \/ recurrence_algorithm = "analytical" /\ ~analytical
        \/ \A d \in 1..Len(parts) :
              IF parts[d].kind = "Binomial"
              THEN /\ analytical
                   /\ recurrence_algorithm \in {"", "analytical"}
                   /\ order <= parts[d].prm.size
              ELSE order <= accuracy

QuadIdle ==
    [pc |-> "idle", order |-> 0, dist |-> [kind |-> "none"], recurrence_algorithm |-> "",
     used |-> "", coefficients |-> <<>>, rule_abscissas |-> <<>>, rule_weights |-> <<>>,
     abscissas |-> <<>>, weights |-> <<>>]

\* quad_gaussian is called: coefficients = construct_recurrence_coefficients(...)
QuadGaussianCall ==
    /\ Quiet
    /\ \E order \in 0..MaxQuadOrder, i \in 1..Len(QuadDists), recurrence_algorithm \in Algorithms :
          /\ Determined(order, QuadDists[i], Accuracy, recurrence_algorithm)
          /\ LET coefficients == construct_recurrence_coefficients(
                                     order, QuadDists[i], "fejer", Accuracy, recurrence_algorithm)
             IN  quad' = [QuadIdle EXCEPT
                              !.pc = IF coefficients.raised # "" THEN coefficients.raised
                                                                  ELSE "coefficients",
                              !.order = order,
                              !.dist = QuadDists[i],
                              !.recurrence_algorithm = recurrence_algorithm,
                              !.used = coefficients.used,
                              !.coefficients = coefficients.coefficients]
    /\ UNCHANGED <<lag, gs, dst, desc>>

\* abscissas, weights = coefficients_to_quadrature(coefficients)
QuadToQuadrature ==
    /\ quad.pc = "coefficients"
    /\ LET rules == coefficients_to_quadrature(quad.coefficients)
       IN  quad' = [quad EXCEPT !.pc = "rules",
                                !.rule_abscissas = rules.abscissas,
                                !.rule_weights = rules.weights]
    /\ UNCHANGED <<lag, gs, dst, desc>>

\* return combine_quadrature(abscissas, weights)
QuadCombine ==
    /\ quad.pc = "rules"
    /\ LET out == combine_quadrature(quad.rule_abscissas, quad.rule_weights)
       IN  quad' = [quad EXCEPT !.pc = "done",
                                !.abscissas = out.abscissas,
                                !.weights = out.weights]
    /\ UNCHANGED <<lag, gs, dst, desc>>

\* the caller has the result or the exception
QuadReturn ==
    /\ quad.pc \in {"done", "NotImplementedError"}
    /\ quad' = QuadIdle
    /\ UNCHANGED <<lag, gs, dst, desc>>

(***************************************************************************)
(* Properties of quad_gaussian.                                            *)
(***************************************************************************)
\* the shape (rows, columns) of a two-dimensional array with equal rows
Shape2(a) == <<Len(a), IF Len(a) = 0 THEN 0 ELSE Len(a[1])>>

Rectangular(a) == \A d \in 1..Len(a) : Len(a[d]) = Len(a[1])

\* C7: quad_gaussian(order, dist) returns abscissas of shape
\* (len(dist), order+1) and weights of shape (order+1,) for every distribution,
\* univariate or multivariate, and every order >= 0.
C7_Shapes ==
    quad.pc = "done" =>
        /\ Rectangular(quad.abscissas)
        /\ Shape2(quad.abscissas) = <<DistLen(quad.dist), quad.order + 1>>
        /\ Len(quad.weights) = quad.order + 1

\* what quad_gaussian returns instead, with combine_quadrature as the spec
\* and the doctest describe it: abscissas of shape
\* (len(dist), (order+1)**len(dist)) and weights of shape
\* ((order+1)**len(dist),); this is (1, order+1) and (order+1,) for a
\* univariate distribution only.
C7_ShapesTensor ==
    quad.pc = "done" =>
        /\ Rectangular(quad.abscissas)
        /\ Shape2(quad.abscissas)
               = <<DistLen(quad.dist), Pow(quad.order + 1, DistLen(quad.dist))>>
        /\ Len(quad.weights) = Pow(quad.order + 1, DistLen(quad.dist))

\* the doctest's case: a bivariate distribution at order 2 gives 2 x 9 abscissas
C7_Witness ==
    /\ quad.pc = "done"
    /\ quad.dist.kind = "J"
    /\ quad.order = 2
    /\ Shape2(quad.abscissas) = <<2, 9>>
    /\ Len(quad.weights) = 9

\* a univariate distribution at order 2 gives 1 x 3 abscissas
C7_WitnessUnivariate ==
    /\ quad.pc = "done"
    /\ quad.dist.kind = "power_normal"
    /\ quad.order = 2
    /\ Shape2(quad.abscissas) = <<1, 3>>

\* the weights sum to 1 within tol
NearOne(w, tol) == Abs(FSum(w, Len(w)) - Unit) <= tol

\* C8: combining the rules of the dimensions yields the full tensor product:
\* the joint abscissas are the Cartesian product of the points of the
\* dimensions, the first dimension varying slowest; the joint weight at each
\* position is the product of the weights of the points at that position; there
\* are as many weights as abscissas; and if the weights of every dimension sum
\* to 1, so do the joint weights.
C8_TensorProduct ==
    quad.pc = "done" =>
        LET x == quad.rule_abscissas
            w == quad.rule_weights
            dim == Len(x)
        IN  /\ Len(quad.abscissas) = dim
            /\ Rectangular(quad.abscissas)
            /\ Len(quad.weights) = Len(quad.abscissas[1])
            /\ dim = 1 => quad.abscissas = x /\ quad.weights = w[1]
            /\ dim = 2 =>
                 /\ Len(quad.weights) = Len(x[1]) * Len(x[2])
                 /\ \A i \in 1..Len(x[1]), j \in 1..Len(x[2]) :
                       LET pos == (i - 1) * Len(x[2]) + j
                       IN  /\ quad.abscissas[1][pos] = x[1][i]
                           /\ quad.abscissas[2][pos] = x[2][j]
                           /\ quad.weights[pos] = FMul(w[1][i], w[2][j])
            /\ (\A d \in 1..dim : NearOne(w[d], Tol \div 4)) => NearOne(quad.weights, Tol)

\* two dimensions of three points each, each with weights that sum to 1, have
\* been combined, and the second dimension has distinct points
C8_Witness ==
    /\ quad.pc = "done"
    /\ Len(quad.rule_abscissas) = 2
    /\ Len(quad.rule_abscissas[1]) = 3
    /\ quad.rule_abscissas[2][1] # quad.rule_abscissas[2][2]
    /\ quad.rule_abscissas[1] # quad.rule_abscissas[2]
    /\ \A d \in 1..2 : NearOne(quad.rule_weights[d], Tol \div 4)
    /\ Len(quad.weights) = 9

\* every part of the distribution implements the three terms recurrence
Analytical(dist) == \A d \in 1..Len(Components(dist)) : HasTtr(Components(dist)[d])

\* C9: with recurrence_algorithm omitted the analytical recurrence is tried
\* first and, if the distribution does not implement it, stieltjes is used
\* instead, and no NotImplementedError reaches the caller; NotImplementedError
\* reaches the caller only when recurrence_algorithm is "analytical".
C9_AlgorithmFallback ==
    /\ (quad.pc # "idle" /\ quad.recurrence_algorithm = "") =>
          /\ quad.pc # "NotImplementedError"
          /\ quad.used = IF Analytical(quad.dist) THEN "analytical" ELSE "stieltjes"
    /\ quad.pc = "NotImplementedError" =>
          /\ quad.recurrence_algorithm = "analytical"
          /\ ~Analytical(quad.dist)

\* a distribution without _ttr got its rule with no algorithm named
C9_Witness ==
    /\ quad.pc = "done"
    /\ quad.recurrence_algorithm = ""
    /\ quad.dist.kind = "log_uniform"
    /\ quad.used = "stieltjes"
    /\ Len(quad.weights) = quad.order + 1

\* the analytical recurrence named for a distribution without _ttr
C9_WitnessRaised ==
    /\ quad.pc = "NotImplementedError"
    /\ quad.recurrence_algorithm = "analytical"
    /\ quad.dist.kind = "power_normal"

(***************************************************************************)
(* descriptives: Perc (percentile.py) and Sens_t (sensitivity/total.py).   *)
(* An array is modelled by its shape, a sequence of axis lengths, where    *)
(* only the shape is computed on.                                          *)
(***************************************************************************)
\* longest axis of the polynomial and percentile arrays handed to Perc
MaxExtent == 2
\* largest number of samples handed to Perc
MaxSample == 3

DescIdle == [pc |-> "idle", fn |-> ""]

\* numpy: number of elements of an array of the given shape
RECURSIVE Size(_)
Size(shape) == IF shape = <<>> THEN 1 ELSE Head(shape) * Size(Tail(shape))

\* numpy: ndarray.flatten
Flatten(shape) == <<Size(shape)>>

\* numpy: ndarray.T reverses the axes
RECURSIVE Transpose(_)
Transpose(shape) ==
    IF shape = <<>> THEN <<>> ELSE Append(Transpose(Tail(shape)), Head(shape))

\* numpy: array[index] with an integer index array replaces the first axis
\* of the array by the axes of the index
FancyIndex(array, index) == index \o Tail(array)

\* numpy: concatenate along the last axis; the arrays need the same number
\* of axes and the same lengths on all the other axes
Concatenate(a, b) ==
    IF Len(a) = Len(b) /\ Len(a) > 0
       /\ SubSeq(a, 1, Len(a) - 1) = SubSeq(b, 1, Len(b) - 1)
    THEN Append(SubSeq(a, 1, Len(a) - 1), a[Len(a)] + b[Len(b)])
    ELSE <<"ValueError">>

\* numpy: ndarray.reshape keeps the number of elements
Reshape(array, newshape) ==
    IF Size(array) = Size(newshape) THEN newshape ELSE <<"ValueError">>

ArrayShapes(extent) ==
    {<<>>} \cup {<<a>> : a \in 1..extent}
           \cup {<<a, b>> : a \in 1..extent, b \in 1..extent}

\* the shapes of poly and of q: all shapes up to two axes, and the shapes of
\* the example in the documentation of Perc
PolyShapes == ArrayShapes(MaxExtent) \cup {<<3>>}
PercentileShapes == ArrayShapes(MaxExtent) \cup {<<5>>}

\* the shape the percentiles are returned in: q.shape + shape
PercShape(q, shape) == q \o shape

\* Perc up to the evaluation of the polynomials on the samples
\* kept: the number of corners of the range where no polynomial is nan
Perc(shape, q, dim, sample, kept) ==
    [pc |-> "sampled", fn |-> "Perc", shape |-> shape, qshape |-> q,
     dim |-> dim, sample |-> sample, kept |-> kept,
     poly |-> Flatten(shape),
     q |-> IF dim = 1 THEN <<1>> \o q ELSE q,
     poly1 |-> <<Size(shape), sample>>,
     poly2 |-> <<>>, out |-> <<>>]

PercCall ==
    /\ Quiet
    /\ \E shape \in PolyShapes, q \in PercentileShapes, dim \in 1..2,
          sample \in 2..MaxSample :
         \E kept \in 1..Pow(2, dim) :
            desc' = Perc(shape, q, dim, sample, kept)
    /\ UNCHANGED <<lag, gs, dst, quad>>

\* the polynomials on the corners of the range, without the corners where
\* one of them is nan
PercExtremes ==
    /\ desc.pc = "sampled"
    /\ desc' = [desc EXCEPT
                  !.pc = "extremes",
                  !.poly2 = IF desc.kept = 0 THEN <<0>>
                            ELSE Transpose(<<desc.kept>> \o desc.poly)]
    /\ UNCHANGED <<lag, gs, dst, quad>>

PercFinish ==
    /\ desc.pc = "extremes"
    /\ LET poly1 == IF desc.poly2 # <<>>
                    THEN Concatenate(desc.poly1, desc.poly2) ELSE desc.poly1
           sorted == poly1
           out == FancyIndex(Transpose(sorted), desc.q)
       IN  IF poly1 = <<"ValueError">>
           THEN desc' = [desc EXCEPT !.pc = "ValueError"]
           ELSE desc' = [desc EXCEPT
                           !.pc = "done", !.poly1 = poly1,
                           !.out = Reshape(out, PercShape(desc.q, desc.shape))]
    /\ UNCHANGED <<lag, gs, dst, quad>>

(***************************************************************************)
(* Sens_t.  A polynomial is a sequence of terms, a term a coefficient c    *)
(* and one exponent e[j] for every variable; the variables are independent *)
(* and uniform on (lower, 1), as in Iid(Uniform(lower, 1), dim).           *)
(***************************************************************************)
\* largest number of polynomials in the array handed to Sens_t
MaxComponents == 2

\* the k-th raw moment of Uniform(lower, 1)
Moment(lower, k) == Rat(1 - Pow(lower, k + 1), (k + 1) * (1 - lower))

RECURSIVE RProdTo(_, _)
\* f[1] * ... * f[n] for rationals
RProdTo(f, n) == IF n = 0 THEN ROne ELSE RMul(RProdTo(f, n - 1), f[n])

\* the product of two polynomials, term by term
TermsMul(p, q) ==
    Force([k \in 1..(Len(p) * Len(q)) |->
        LET a == p[((k - 1) \div Len(q)) + 1]
            b == q[((k - 1) % Len(q)) + 1]
        IN  [c |-> RMul(a.c, b.c),
             e |-> [j \in 1..Len(a.e) |-> a.e[j] + b.e[j]]]])

\* E_cond(poly, freeze, dist): the expectation over the variables that are
\* not frozen, a polynomial in the frozen ones
E_cond(poly, freeze, lower) ==
    Force([k \in 1..Len(poly) |->
        [c |-> RMul(poly[k].c,
                    RProdTo([j \in 1..Len(freeze) |->
                                IF freeze[j] = 0 THEN Moment(lower, poly[k].e[j])
                                ELSE ROne], Len(freeze))),
         e |-> [j \in 1..Len(freeze) |->
                    IF freeze[j] = 0 THEN 0 ELSE poly[k].e[j]]]])

\* E(poly, dist): no variable is frozen
Mean(poly, lower) ==
    IF Len(poly) = 0 THEN RZero
    ELSE LET mean == E_cond(poly, [j \in 1..Len(poly[1].e) |-> 0], lower)
         IN  RSumTo([k \in 1..Len(mean) |-> mean[k].c], Len(mean))

\* Var(poly, dist) of one polynomial
Var(poly, lower) ==
    RSub(Mean(TermsMul(poly, poly), lower),
         RMul(Mean(poly, lower), Mean(poly, lower)))

\* numpy: a bool in arithmetic is 0 or 1
AsInt(bool) == IF bool THEN 1 ELSE 0

\* the divisor with the variance as it is
DivisorPlain(V) == V

\* the divisor of the index: (V+(V == 0))**(V != 0)
Divisor(V) == RPow(RAdd(V, RInt(AsInt(V = RZero))), AsInt(V # RZero))

Mono(c, e) == <<[c |-> RInt(c), e |-> e]>>

\* the polynomials of the arrays: the ones of the example, 1, x, y and
\* 10*x*y, and 3, x*x and x + y; in one dimension the ones without y
PolyComponents(dim) ==
    IF dim = 1
    THEN {Mono(1, <<0>>), Mono(3, <<0>>), Mono(1, <<1>>), Mono(1, <<2>>),
          Mono(1, <<1>>) \o Mono(1, <<2>>)}
    ELSE {Mono(1, <<0, 0>>), Mono(3, <<0, 0>>), Mono(1, <<1, 0>>),
          Mono(1, <<0, 1>>), Mono(10, <<1, 1>>), Mono(1, <<2, 0>>),
          Mono(1, <<1, 0>>) \o Mono(1, <<0, 1>>)}

\* the array of the example
ExamplePoly ==
    <<Mono(1, <<0, 0>>), Mono(1, <<1, 0>>), Mono(1, <<0, 1>>), Mono(10, <<1, 1>>)>>

PolyArrays(dim) ==
    UNION {[1..n -> PolyComponents(dim)] : n \in 1..MaxComponents}
        \cup (IF dim = 2 THEN {ExamplePoly} ELSE {})

\* Sens_t up to its loop
Sens_t(poly, dim, lower) ==
    [pc |-> "loop", fn |-> "Sens_t", poly |-> poly, dim |-> dim, lower |-> lower,
     zero |-> [j \in 1..dim |-> 1],
     out |-> [j \in 1..dim |-> [k \in 1..Len(poly) |-> RZero]],
     V |-> [k \in 1..Len(poly) |-> Var(poly[k], lower)],
     i |-> 0, freeze |-> <<>>, divisor |-> <<>>]

SensCall ==
    /\ Quiet
    /\ \E dim \in 1..2, lower \in {-1, 0} :
         \E poly \in PolyArrays(dim) : desc' = Sens_t(poly, dim, lower)
    /\ UNCHANGED <<lag, gs, dst, quad>>

\* one pass of the loop, for the variable i (counted from 0)
SensStep ==
    /\ desc.fn = "Sens_t" /\ desc.pc = "loop" /\ desc.i < desc.dim
    /\ LET zero == [desc.zero EXCEPT ![desc.i + 1] = 0]
           divisor == [k \in 1..Len(desc.poly) |-> Divisor(desc.V[k])]
           index == [k \in 1..Len(desc.poly) |->
                        RDiv(RSub(desc.V[k],
                                  Var(E_cond(desc.poly[k], zero, desc.lower),
                                      desc.lower)),
                             divisor[k])]
       IN  desc' = [desc EXCEPT
                      !.out = [desc.out EXCEPT ![desc.i + 1] = index],
                      !.zero = [zero EXCEPT ![desc.i + 1] = 1],
                      !.freeze = Append(desc.freeze, zero),
                      !.divisor = divisor,
                      !.i = desc.i + 1]
    /\ UNCHANGED <<lag, gs, dst, quad>>

SensFinish ==
    /\ desc.fn = "Sens_t" /\ desc.pc = "loop" /\ desc.i = desc.dim
    /\ desc' = [desc EXCEPT !.pc = "done"]
    /\ UNCHANGED <<lag, gs, dst, quad>>

DescReturn ==
    /\ desc.pc \in {"done", "ValueError"}
    /\ desc' = DescIdle
    /\ UNCHANGED <<lag, gs, dst, quad>>

\* C14: in Sens_t the divisor (V+(V == 0))**(V != 0) is never zero: it is V
\* where V is not 0 and 1 where V is 0, so that a polynomial of variance 0
\* gets the index 0 for every variable, not nan or inf; and the mask zero is
\* all ones again after every pass, so that pass i freezes exactly the
\* variables other than i
C14_DivisorAndMask ==
    desc.fn = "Sens_t" =>
        /\ \A j \in 1..desc.dim : desc.zero[j] = 1
        /\ Len(desc.freeze) = desc.i
        /\ \A i \in 1..desc.i :
              desc.freeze[i] = [j \in 1..desc.dim |-> IF j = i THEN 0 ELSE 1]
        /\ desc.i > 0 =>
              \A k \in 1..Len(desc.poly) :
                 /\ desc.divisor[k] # RZero /\ desc.divisor[k][2] # 0
                 /\ desc.V[k] # RZero => desc.divisor[k] = desc.V[k]
                 /\ desc.V[k] = RZero => desc.divisor[k] = ROne
        /\ \A i \in 1..desc.i : \A k \in 1..Len(desc.poly) :
              /\ desc.out[i][k][2] # 0
              /\ desc.V[k] = RZero => desc.out[i][k] = RZero

\* the example of the documentation: the constant 1 has the index 0 for both
\* variables, x and y the index 1 for their own variable, 10*x*y 4/7 for both
C14_Witness ==
    /\ desc.fn = "Sens_t" /\ desc.pc = "done"
    /\ desc.poly = ExamplePoly /\ desc.lower = 0
    /\ desc.V[1] = RZero /\ desc.V[2] # RZero
    /\ desc.out = <<<<RZero, ROne, RZero, Rat(4, 7)>>,
                    <<RZero, RZero, ROne, Rat(4, 7)>>>>

\* a polynomial without variance in an array of one dimension, in the loop
C14_WitnessConstant ==
    /\ desc.fn = "Sens_t" /\ desc.pc = "loop" /\ desc.i = 1 /\ desc.dim = 2
    /\ \E k \in 1..Len(desc.poly) :
          desc.V[k] = RZero /\ desc.divisor[k] = ROne /\ desc.out[1][k] = RZero

\* C13 as stated: Perc returns an array of shape poly.shape + q.shape, also
\* for a distribution of one dimension
C13_ShapePolyFirst ==
    (desc.fn = "Perc" /\ desc.pc = "done") => desc.out = desc.shape \o desc.qshape

\* what Perc returns instead: an array of shape q.shape + poly.shape for a
\* distribution of two or more dimensions and of shape
\* (1,) + q.shape + poly.shape for a distribution of one dimension, with one
\* percentile of each polynomial for each entry of q
C13_ShapePercentilesFirst ==
    (desc.fn = "Perc" /\ desc.pc = "done") =>
        /\ desc.out = (IF desc.dim = 1 THEN <<1>> ELSE <<>>)
                          \o desc.qshape \o desc.shape
        /\ Size(desc.out) = Size(desc.qshape) * Size(desc.shape)
        /\ desc.poly1 = <<Size(desc.shape), desc.sample + desc.kept>>

\* the example of the documentation: three polynomials and five percentiles
\* of a distribution of two dimensions give an array of five rows
C13_WitnessExample ==
    /\ desc.fn = "Perc" /\ desc.pc = "done"
    /\ desc.dim = 2 /\ desc.shape = <<3>> /\ desc.qshape = <<5>>
    /\ desc.out = <<5, 3>>

\* a distribution of one dimension
C13_WitnessOneDimension ==
    /\ desc.fn = "Perc" /\ desc.pc = "done"
    /\ desc.dim = 1 /\ desc.shape = <<2>> /\ desc.qshape = <<1, 2>>
    /\ desc.out = <<1, 1, 2, 2>>

(***************************************************************************)
(* The specifications: one per part of the program, each from the state    *)
(* in which nothing has been called.                                       *)
(***************************************************************************)
Init ==
    lag = LagIdle /\ gs = GsIdle /\ dst = DstIdle /\ quad = QuadIdle /\ desc = DescIdle

NextLagrange == LagrangeCall \/ LagrangeStep \/ LagrangeReturn
SpecLagrange == Init /\ [][NextLagrange]_vars

NextGs == GsCall \/ GsOrth \/ GsNorm \/ GsReturn
SpecGs == Init /\ [][NextGs]_vars

NextDist ==
    \/ BinomialConstruct \/ LogUniformConstruct \/ PowerNormalConstruct \/ WaldConstruct
    \/ ArcsinConstruct \/ ArctanConstruct \/ DistInv \/ DistFwd
    \/ DistFwdCache \/ DistInvCache \/ DistReturn
SpecDist == Init /\ [][NextDist]_vars

NextQuad == QuadGaussianCall \/ QuadToQuadrature \/ QuadCombine \/ QuadReturn
SpecQuad == Init /\ [][NextQuad]_vars

NextDesc ==
    \/ PercCall \/ PercExtremes \/ PercFinish
    \/ SensCall \/ SensStep \/ SensFinish \/ DescReturn
SpecDesc == Init /\ [][NextDesc]_vars

Next == NextLagrange \/ NextGs \/ NextDist \/ NextQuad \/ NextDesc
Spec == Init /\ [][Next]_vars
=============================================================================
